---- MODULE Spec2Model ----
(***************************************************************************)
(* Teams chat converter: structure discovery, per-element field            *)
(* extraction, deduplication, timestamp-drift detection and export, as     *)
(* implemented in src/teams_chat_converter.py and driven either by         *)
(* TeamsChartConverter.convert or by ConverterGUI.run_conversion, and the  *)
(* window of src/teams_chat_converter_gui.py that starts conversions.      *)
(*                                                                         *)
(* Representation.                                                         *)
(*   text        a sequence of atoms: characters, and the few longer       *)
(*               strings the code tests for as a whole (".pdf")            *)
(*   URL         a sequence of atoms (scheme, host, "/", name, extension)  *)
(*   optional x  <<>> for None, <<x>> for a value                          *)
(*   timestamp   seconds as a natural number, NoTs for None / NaT; a date  *)
(*               is the instant of its midnight                            *)
(*   DataFrame   a sequence of rows (records); the position in the         *)
(*               sequence is the row label after reset_index(drop=True)    *)
(*   md5         taken as injective: a hash is the text that is hashed     *)
(***************************************************************************)
EXTENDS Integers, Sequences, FiniteSets, TLC

VARIABLES
    soup,              \* the parsed document: sequence of markup elements
    readable,          \* open() and read() of the source file succeed
    today,             \* midnight of the current date, in seconds
    caller,            \* "convert" (convert()) or "gui" (run_conversion())
    sort_kind,         \* how the build's quicksort orders equal keys
    pc,                \* position of the run
    message_elements,  \* result of _find_message_elements
    idx,               \* number of elements the parse_html loop has handled
    messages,          \* parse_html's list of message dictionaries
    df,                \* the DataFrame passed from stage to stage
    stats,             \* self.stats
    last_urls,         \* urls of the latest _extract_message_data call
    last_attachments,  \* attachments of the latest _extract_message_data call
    excel,             \* <<>> while no report exists, <<rows>> once written
    runs,              \* number of runs started so far
    prev,              \* how the previous run ended: <<>> or <<[pc, df]>>
    selected_file,     \* ConverterGUI.selected_file: <<>> or <<file>>
    is_converting,     \* ConverterGUI.is_converting
    convert_button,    \* state of the Convert button
    browse_button,     \* state of the Browse button
    workers,           \* live threads that execute run_conversion
    after_queue        \* callbacks scheduled with root.after(0, ...)

\* the converter and the variables of one run
run == <<soup, readable, caller, sort_kind, pc, message_elements, idx, messages,
         df, stats, last_urls, last_attachments, excel>>

\* what outlives a run
history == <<today, runs, prev>>

\* the window
gui == <<selected_file, is_converting, convert_button, browse_button, workers,
         after_queue>>

vars == <<run, history, gui>>

-----------------------------------------------------------------------------
(* Bounds of the model *)

MaxDoc == 3        \* elements per document in Init
MaxDriftDoc == 4   \* elements per document in InitDrift
MaxSoup == 3       \* elements per document in InitDiscover
MaxAnchors == 2    \* hyperlinks per element in InitUrls
MaxTextUrls == 2   \* free-text URL matches per element in InitUrls
MaxAttElems == 2   \* attachment-role elements per element in InitAtts
MaxIcons == 1      \* icon elements per element in InitAtts
MaxDownloads == 1  \* hyperlinks per element in InitAtts
MaxRuns == 2       \* runs on one document
MaxAgainDoc == 2   \* elements per document in InitAgain
MaxHostParts == 2  \* host names joined into the host of a URL in InitClassify

(* Program constants *)

NoTs == -1               \* _extract_timestamp returned None (NaT in the frame)
DriftThreshold == 300    \* threshold_seconds default
MaxSenderLen == 100      \* sender text must be shorter than this
MaxFilenameLen == 200    \* attachment text must be shorter than this

-----------------------------------------------------------------------------
(* Text helpers *)

None == <<>>
Some(x) == <<x>>

IsSpace(c) == c = " "

RECURSIVE LStrip(_)
LStrip(s) == IF s # <<>> /\ IsSpace(Head(s)) THEN LStrip(Tail(s)) ELSE s

RECURSIVE RStrip(_)
RStrip(s) ==
    IF s # <<>> /\ IsSpace(s[Len(s)])
    THEN RStrip(SubSeq(s, 1, Len(s) - 1))
    ELSE s

\* str.strip()
Strip(s) == RStrip(LStrip(s))

RECURSIVE Flatten(_)
Flatten(ss) == IF ss = <<>> THEN <<>> ELSE Head(ss) \o Flatten(Tail(ss))

RECURSIVE MapStrip(_)
MapStrip(ss) ==
    IF ss = <<>> THEN <<>> ELSE <<Strip(Head(ss))>> \o MapStrip(Tail(ss))

Reverse(s) == [i \in 1..Len(s) |-> s[Len(s) + 1 - i]]

Range(s) == {s[i] : i \in 1..Len(s)}

RECURSIVE SeqsUpTo(_, _)
SeqsUpTo(S, n) ==
    IF n = 0 THEN {<<>>}
    ELSE LET shorter == SeqsUpTo(S, n - 1)
         IN  shorter \cup {Append(s, x) : s \in {t \in shorter : Len(t) = n - 1}, x \in S}

Unknown == <<"U", "n", "k", "n", "o", "w", "n">>

\* a lone surrogate: what the character reference &#xD800; leaves in a text
Surrogate == "U+D800"

\* str.encode('utf-8') succeeds on the text
Encodable(s) == \A i \in 1..Len(s) : s[i] # Surrogate

-----------------------------------------------------------------------------
(* Structure discovery: _find_message_elements *)

\* re.compile('MessageCard|message-card', re.I).search(class token)
CardRe(c) == c \in {"MessageCard", "message-card", "Chat-Message-Card"}

\* re.compile('message|msg|chat', re.I).search(class token)
LooseRe(c) ==
    c \in {"message", "chat-message", "msg", "message-row", "MessageCard",
           "message-card", "Chat-Message-Card", "chat-box"}

\* the ordered selector list
Selectors ==
    << [tag |-> "div", kind |-> "class", val |-> "message"],
       [tag |-> "div", kind |-> "class", val |-> "chat-message"],
       [tag |-> "div", kind |-> "class", val |-> "msg"],
       [tag |-> "tr",  kind |-> "class", val |-> "message-row"],
       [tag |-> "div", kind |-> "data-type", val |-> "message"],
       [tag |-> "div", kind |-> "class-re", val |-> "card"] >>

\* one element against one (tag, attrs) selector, as find_all matches it
Matches(e, sel) ==
    /\ e.tag = sel.tag
    /\ CASE sel.kind = "class"     -> sel.val \in e.classes
         [] sel.kind = "data-type" -> e.data_type = sel.val
         [] sel.kind = "class-re"  -> \E c \in e.classes : CardRe(c)

\* soup.find_all(tag, attrs): the matches in document order
FindAll(doc, sel) == SelectSeq(doc, LAMBDA e : Matches(e, sel))

\* soup.find_all('div', class_=re.compile('message|msg|chat', re.I))
FindAllLoose(doc) ==
    SelectSeq(doc, LAMBDA e : e.tag = "div" /\ \E c \in e.classes : LooseRe(c))

\* soup.find_all('div')
FindAllDivs(doc) == SelectSeq(doc, LAMBDA e : e.tag = "div")

\* the matches of every selector merged, in document order
FirstMatchingMerged(doc, sels) ==
    SelectSeq(doc, LAMBDA e : \E k \in 1..Len(sels) : Matches(e, sels[k]))

RECURSIVE FirstMatching(_, _)
FirstMatching(doc, sels) ==
    IF sels = <<>> THEN <<>>
    ELSE LET elements == FindAll(doc, Head(sels))
         IN  IF elements # <<>> THEN elements
             ELSE FirstMatching(doc, Tail(sels))

FindMessageElements(doc) ==
    LET elements == FirstMatching(doc, Selectors)
    IN  IF elements # <<>> THEN elements
        ELSE IF FindAllLoose(doc) # <<>> THEN FindAllLoose(doc)
        ELSE FindAllDivs(doc)

-----------------------------------------------------------------------------
(* Field extraction: timestamp, sender, recipient, body *)

\* instants the timestamp formats of _parse_timestamp can produce here
TimeVals == {0, 10, 100, 400, 410}

\* str(timestamp) as _generate_hash formats it: fixed-width text, one atom;
\* str(None) is "None"
TsStr(t) == IF t = NoTs THEN <<"None">> ELSE <<ToString(t)>>

\* a text that holds a time of day and no date
ClockText == "00:00:10"

\* midnights of the dates a run can fall on
Dates == {0, 1000}

\* _parse_timestamp: the stripped text parsed by the first format that
\* accepts it; failing that, pd.to_datetime, which reads a time of day as a
\* time of the current date; None when that fails too
ParseTimestamp(time_str) ==
    IF time_str = <<>> THEN NoTs
    ELSE IF \E t \in TimeVals : Strip(time_str) = <<ToString(t)>>
         THEN CHOOSE t \in TimeVals : Strip(time_str) = <<ToString(t)>>
         ELSE IF Strip(time_str) = <<ClockText>> THEN today + 10
         ELSE NoTs

RECURSIVE FirstParsed(_)
FirstParsed(texts) ==
    IF texts = <<>> THEN NoTs
    ELSE IF ParseTimestamp(Head(texts)) # NoTs THEN ParseTimestamp(Head(texts))
    ELSE FirstParsed(Tail(texts))

\* texts of the time elements the three tag patterns find, in pattern order
TimeElemTexts(e) ==
    LET c == SelectSeq(e.times, LAMBDA x : ~x.attr)
    IN  [i \in 1..Len(c) |-> Strip(c[i].text)]

\* values of the datetime / data-timestamp / data-time attributes present
TimeAttrTexts(e) ==
    LET c == SelectSeq(e.times, LAMBDA x : x.attr)
    IN  [i \in 1..Len(c) |-> c[i].text]

\* _extract_timestamp: time elements first, then the attributes
ExtractTimestamp(e) ==
    LET fromElem == FirstParsed(TimeElemTexts(e))
    IN  IF fromElem # NoTs THEN fromElem ELSE FirstParsed(TimeAttrTexts(e))

RECURSIVE FirstSender(_)
FirstSender(texts) ==
    IF texts = <<>> THEN Unknown
    ELSE LET sender == Strip(Head(texts))
         IN  IF sender # <<>> /\ Len(sender) > 0 /\ Len(sender) < MaxSenderLen
             THEN sender
             ELSE FirstSender(Tail(texts))

\* _extract_sender: e.senders holds the text of the element each sender
\* pattern finds, in pattern order
ExtractSender(e) == FirstSender(e.senders)

\* _extract_recipient: the first pattern that finds an element decides
ExtractRecipient(e) ==
    IF e.recipients = <<>> THEN Unknown ELSE Strip(Head(e.recipients))

\* every string inside the element, in document order
ElementStrings(e) ==
    LET timeElems == SelectSeq(e.times, LAMBDA x : ~x.attr)
    IN  [i \in 1..Len(timeElems) |-> timeElems[i].text]
        \o e.senders \o e.recipients \o e.contents \o <<e.text>>
        \o [i \in 1..Len(e.anchors) |-> e.anchors[i].text]
        \o [i \in 1..Len(e.att_elems) |-> e.att_elems[i].text]
        \o [i \in 1..Len(e.icon_parents) |-> e.icon_parents[i].text]

\* element.get_text(strip=True): the stripped strings joined, empty ones skipped
GetTextStrip(e) == Flatten(MapStrip(ElementStrings(e)))

RECURSIVE FirstNonEmpty(_)
FirstNonEmpty(texts) ==
    IF texts = <<>> THEN <<>>
    ELSE LET text == Strip(Head(texts))
         IN  IF text # <<>> /\ Len(text) > 0 THEN text
             ELSE FirstNonEmpty(Tail(texts))

\* _extract_message_text without strip=True
ExtractMessageTextUnstripped(e) ==
    IF e.contents # <<>> /\ Head(e.contents) # <<>> THEN Head(e.contents)
    ELSE Flatten(ElementStrings(e))

\* _extract_message_text: e.contents holds the text of the element each body
\* pattern finds; the fallback is all text of the element; <<>> stands for
\* the None it returns when that is empty
ExtractMessageText(e) ==
    LET text == FirstNonEmpty(e.contents)
    IN  IF text # <<>> THEN text ELSE GetTextStrip(e)

\* _generate_hash: md5 of str(timestamp) + sender + message
GenerateHash(timestamp, sender, message) == TsStr(timestamp) \o sender \o message

\* _generate_hash raises UnicodeEncodeError: .encode('utf-8') meets a
\* surrogate
HashRaises(timestamp, sender, message) ==
    ~Encodable(GenerateHash(timestamp, sender, message))

-----------------------------------------------------------------------------
(* URL helpers.  A URL is a sequence of atoms: a scheme ("http://",         *)
(* "mailto:", ...), host names, "/" separators, path words and extensions   *)
(* (".pdf"); " " is a blank around a raw href.                              *)

\* str.lower() on one atom
LowerAtom(a) ==
    CASE a = ".PDF" -> ".pdf"
      [] a = ".XLSX" -> ".xlsx"
      [] a = "Download" -> "download"
      [] a = "HTTP://" -> "http://"
      [] OTHER -> a

Lower(s) == [i \in 1..Len(s) |-> LowerAtom(s[i])]

NetSchemes == {"http://", "https://", "ftp://"}

RECURSIVE UpToSlash(_)
UpToSlash(s) ==
    IF s = <<>> \/ Head(s) = "/" THEN <<>> ELSE <<Head(s)>> \o UpToSlash(Tail(s))

RECURSIVE FromSlash(_)
FromSlash(s) == IF s = <<>> \/ Head(s) = "/" THEN s ELSE FromSlash(Tail(s))

\* urlparse(url).netloc
Netloc(url) ==
    IF url # <<>> /\ Head(url) \in NetSchemes THEN UpToSlash(Tail(url)) ELSE <<>>

\* urlparse(url).path
UrlPath(url) ==
    IF url = <<>> THEN <<>>
    ELSE IF Head(url) \in NetSchemes THEN FromSlash(Tail(url))
    ELSE IF Head(url) \in {"mailto:", "javascript:", "tel:"} THEN Tail(url)
    ELSE IF Head(url) = "#" THEN <<>>
    ELSE url

RECURSIVE LastSegment(_)
\* path.split('/')[-1]
LastSegment(path) ==
    IF \E i \in 1..Len(path) : path[i] = "/"
    THEN LastSegment(Tail(path))
    ELSE path

\* atoms that carry a "."
DotAtoms ==
    {".pdf", ".doc", ".docx", ".txt", ".rtf", ".odt", ".xls", ".xlsx", ".csv",
     ".ods", ".ppt", ".pptx", ".odp", ".jpg", ".jpeg", ".png", ".gif", ".bmp",
     ".svg", ".webp", ".mp4", ".avi", ".mov", ".wmv", ".flv", ".mkv", ".mp3",
     ".wav", ".ogg", ".m4a", ".flac", ".zip", ".rar", ".7z", ".tar", ".gz",
     ".py", ".js", ".html", ".css", ".java", ".cpp", ".c", ".h", ".PDF",
     ".XLSX", ".bin"}

EndsWithAny(s, exts) == s # <<>> /\ s[Len(s)] \in exts

ContainsAny(s, atoms) == \E i \in 1..Len(s) : s[i] \in atoms

\* hosts in which each substring test of _classify_url succeeds
SharePointHosts == {"contoso.sharepoint.com"}
TeamsHosts == {"teams.microsoft.com", "teams.live.com"}
OneDriveHosts == {"onedrive.live.com"}
FileSharingHosts == {"dropbox.com", "box.com", "drive.google.com"}
MeetingHosts == {"zoom.us", "meet.google.com", "webex.com"}

\* _classify_url with the extension rules ahead of the host rules
ClassifyUrlExtensionFirst(url) ==
    LET parsed == Lower(url)
        domain == Netloc(parsed)
        path   == UrlPath(parsed)
    IN  IF EndsWithAny(path, {".pdf", ".doc", ".docx", ".xls", ".xlsx",
                              ".ppt", ".pptx"}) THEN "Document"
        ELSE IF EndsWithAny(path, {".jpg", ".jpeg", ".png", ".gif", ".mp4",
                                   ".mp3"}) THEN "Media"
        ELSE IF ContainsAny(domain, SharePointHosts) THEN "SharePoint"
        ELSE IF ContainsAny(domain, TeamsHosts) THEN "Teams"
        ELSE IF ContainsAny(domain, OneDriveHosts) THEN "OneDrive"
        ELSE IF ContainsAny(domain, FileSharingHosts) THEN "File Sharing"
        ELSE IF ContainsAny(domain, MeetingHosts) THEN "Meeting"
        ELSE "Web"

\* _classify_url
ClassifyUrl(url) ==
    LET parsed == Lower(url)
        domain == Netloc(parsed)
        path   == UrlPath(parsed)
    IN  IF ContainsAny(domain, SharePointHosts) THEN "SharePoint"
        ELSE IF ContainsAny(domain, TeamsHosts) THEN "Teams"
        ELSE IF ContainsAny(domain, OneDriveHosts) THEN "OneDrive"
        ELSE IF ContainsAny(domain, FileSharingHosts) THEN "File Sharing"
        ELSE IF ContainsAny(domain, MeetingHosts) THEN "Meeting"
        ELSE IF EndsWithAny(path, {".pdf", ".doc", ".docx", ".xls", ".xlsx",
                                   ".ppt", ".pptx"}) THEN "Document"
        ELSE IF EndsWithAny(path, {".jpg", ".jpeg", ".png", ".gif", ".mp4",
                                   ".mp3"}) THEN "Media"
        ELSE "Web"

\* _get_file_type: the extension table in its order
GetFileType(filename) ==
    LET f == Lower(filename)
    IN  IF EndsWithAny(f, {".pdf", ".doc", ".docx", ".txt", ".rtf", ".odt"})
        THEN "Document"
        ELSE IF EndsWithAny(f, {".xls", ".xlsx", ".csv", ".ods"}) THEN "Spreadsheet"
        ELSE IF EndsWithAny(f, {".ppt", ".pptx", ".odp"}) THEN "Presentation"
        ELSE IF EndsWithAny(f, {".jpg", ".jpeg", ".png", ".gif", ".bmp", ".svg",
                                ".webp"}) THEN "Image"
        ELSE IF EndsWithAny(f, {".mp4", ".avi", ".mov", ".wmv", ".flv", ".mkv"})
        THEN "Video"
        ELSE IF EndsWithAny(f, {".mp3", ".wav", ".ogg", ".m4a", ".flac"}) THEN "Audio"
        ELSE IF EndsWithAny(f, {".zip", ".rar", ".7z", ".tar", ".gz"}) THEN "Archive"
        ELSE IF EndsWithAny(f, {".py", ".js", ".html", ".css", ".java", ".cpp",
                                ".c", ".h"}) THEN "Code"
        ELSE "Other"

\* _extract_filename_from_url
ExtractFilenameFromUrl(url) ==
    LET filename == LastSegment(UrlPath(url))
    IN  IF filename # <<>> /\ ContainsAny(filename, DotAtoms)
        THEN filename
        ELSE Unknown

-----------------------------------------------------------------------------
(* _extract_urls *)

SkipPrefixes == {"javascript:", "mailto:", "#", "tel:"}

\* str.startswith(tuple of prefixes)
StartsWithAny(url, prefixes) == url # <<>> /\ Head(url) \in prefixes

\* Method 1: the loop over element.find_all('a', href=True); st carries the
\* list and the seen set
RECURSIVE AnchorLoop(_, _)
AnchorLoop(links, st) ==
    IF links = <<>> THEN st
    ELSE LET url == Strip(Head(links).href)
             display_text == Strip(Head(links).text)
         IN  IF url # <<>> /\ url \notin st.seen_urls
                /\ ~StartsWithAny(url, SkipPrefixes)
             THEN AnchorLoop(Tail(links),
                     [urls |-> Append(st.urls,
                                  [url |-> url,
                                   text |-> IF display_text # <<>>
                                            THEN display_text ELSE url,
                                   type |-> ClassifyUrl(url)]),
                      seen_urls |-> st.seen_urls \cup {url}])
             ELSE AnchorLoop(Tail(links), st)

\* Method 2 without the seen_urls test
RECURSIVE TextLoopNoSeen(_, _)
TextLoopNoSeen(matches, st) ==
    IF matches = <<>> THEN st
    ELSE TextLoopNoSeen(Tail(matches),
             [urls |-> Append(st.urls,
                          [url |-> Head(matches), text |-> Head(matches),
                           type |-> ClassifyUrl(Head(matches))]),
              seen_urls |-> st.seen_urls \cup {Head(matches)}])

\* Method 2: the loop over re.finditer(url_pattern, element.get_text());
\* e.text_urls holds the matches in order
RECURSIVE TextLoop(_, _)
TextLoop(matches, st) ==
    IF matches = <<>> THEN st
    ELSE LET url == Head(matches)
         IN  IF url \notin st.seen_urls
             THEN TextLoop(Tail(matches),
                     [urls |-> Append(st.urls,
                                  [url |-> url, text |-> url,
                                   type |-> ClassifyUrl(url)]),
                      seen_urls |-> st.seen_urls \cup {url}])
             ELSE TextLoop(Tail(matches), st)

ExtractUrls(e) ==
    TextLoop(e.text_urls,
             AnchorLoop(e.anchors, [urls |-> <<>>, seen_urls |-> {}])).urls

\* _format_urls_list: one line "[n] text (type): url" per URL
FormatUrlsList(urls) ==
    [i \in 1..Len(urls) |->
        [n |-> i, text |-> urls[i].text, type |-> urls[i].type, url |-> urls[i].url]]

-----------------------------------------------------------------------------
(* _extract_attachments *)

RECURSIVE FirstTruthy(_)
FirstTruthy(values) ==
    IF values = <<>> THEN None
    ELSE IF Head(values) # <<>> THEN Some(Head(values))
    ELSE FirstTruthy(Tail(values))

\* _parse_attachment_element: None, or Some(attachment dictionary).
\* el.labels are the values of title, data-filename, data-file, aria-label
\* that are present, in that order; el.own_href is the element's href when it
\* is an <a>; el.inner_href the href of its first descendant <a href>;
\* el.size the text of its first size element
ParseAttachmentElement(el) ==
    LET fromAttr == FirstTruthy(el.labels)
        text     == Strip(el.text)
        filename == IF fromAttr # None THEN fromAttr
                    ELSE IF text # <<>> /\ Len(text) > 0 /\ Len(text) < MaxFilenameLen
                         THEN Some(text)
                         ELSE None
        url      == IF el.tag = "a" /\ el.own_href # None /\ el.own_href[1] # <<>>
                    THEN el.own_href
                    ELSE el.inner_href
        size     == IF el.size # None THEN Strip(el.size[1]) ELSE Unknown
        hasName  == filename # None
        hasUrl   == url # None /\ url[1] # <<>>
    IN  IF hasName \/ hasUrl
        THEN Some([filename |-> IF hasName THEN filename[1] ELSE Unknown,
                   url      |-> IF hasUrl THEN url[1] ELSE <<>>,
                   size     |-> size,
                   type     |-> GetFileType(IF hasName THEN filename[1]
                                            ELSE IF hasUrl THEN url[1] ELSE <<>>)])
        ELSE None

\* Method 1, one (tag, class pattern) of attachment_patterns: every match is
\* appended when it parses
RECURSIVE RoleLoop(_, _)
RoleLoop(elems, attachments) ==
    IF elems = <<>> THEN attachments
    ELSE LET attachment_info == ParseAttachmentElement(Head(elems))
         IN  RoleLoop(Tail(elems),
                      IF attachment_info # None
                      THEN Append(attachments, attachment_info[1])
                      ELSE attachments)

AttachmentTags == <<"div", "span", "a", "li">>

RECURSIVE PatternLoop(_, _, _)
PatternLoop(tags, elems, attachments) ==
    IF tags = <<>> THEN attachments
    ELSE PatternLoop(Tail(tags), elems,
            RoleLoop(SelectSeq(elems, LAMBDA el : el.tag = Head(tags)), attachments))

\* Method 2: the parent of each icon element
RECURSIVE IconLoop(_, _)
IconLoop(parents, attachments) ==
    IF parents = <<>> THEN attachments
    ELSE LET attachment_info == ParseAttachmentElement(Head(parents))
         IN  IconLoop(Tail(parents),
                      IF attachment_info # None
                         /\ attachment_info[1] \notin Range(attachments)
                      THEN Append(attachments, attachment_info[1])
                      ELSE attachments)

DownloadExts ==
    {".pdf", ".doc", ".docx", ".xls", ".xlsx", ".ppt", ".pptx", ".zip", ".rar",
     ".txt", ".csv", ".jpg", ".png", ".gif", ".mp4"}

\* Method 3: download links among element.find_all('a', href=True)
RECURSIVE DownloadLoop(_, _)
DownloadLoop(links, attachments) ==
    IF links = <<>> THEN attachments
    ELSE LET href == Head(links).href
             attachment_info ==
                 [filename |-> ExtractFilenameFromUrl(href),
                  url      |-> href,
                  size     |-> Unknown,
                  type     |-> GetFileType(href)]
         IN  DownloadLoop(Tail(links),
                 IF (ContainsAny(Lower(href), {"download"})
                       \/ ContainsAny(Lower(href), DownloadExts))
                    /\ attachment_info \notin Range(attachments)
                 THEN Append(attachments, attachment_info)
                 ELSE attachments)

ExtractAttachments(e) ==
    DownloadLoop(e.anchors,
        IconLoop(e.icon_parents,
            PatternLoop(AttachmentTags, e.att_elems, <<>>)))

\* _format_attachments_list: one line "[n] filename (type, size) - url"
FormatAttachmentsList(attachments) ==
    [i \in 1..Len(attachments) |->
        [n |-> i, filename |-> attachments[i].filename,
         type |-> attachments[i].type, size |-> attachments[i].size,
         url |-> attachments[i].url]]

-----------------------------------------------------------------------------
(* _extract_message_data *)

\* the dictionary _extract_message_data returns for a non-empty body
MessageData(e, index) ==
    LET timestamp == ExtractTimestamp(e)
        sender    == ExtractSender(e)
        message   == ExtractMessageText(e)
        u         == ExtractUrls(e)
        a         == ExtractAttachments(e)
    IN  [index            |-> index,
         timestamp        |-> timestamp,
         sender           |-> sender,
         recipient        |-> ExtractRecipient(e),
         message          |-> message,
         urls             |-> FormatUrlsList(u),
         url_count        |-> Len(u),
         attachments      |-> FormatAttachmentsList(a),
         attachment_count |-> Len(a),
         has_urls         |-> Len(u) > 0,
         has_attachments  |-> Len(a) > 0,
         message_hash     |-> GenerateHash(timestamp, sender, message)]

\* the statistics update of _extract_message_data
StatsAfterExtract(st, u, a) ==
    [st EXCEPT
        !.urls_extracted = IF u # <<>> THEN @ + Len(u) ELSE @,
        !.messages_with_urls = IF u # <<>> THEN @ + 1 ELSE @,
        !.attachments_found = IF a # <<>> THEN @ + Len(a) ELSE @,
        !.messages_with_attachments = IF a # <<>> THEN @ + 1 ELSE @]

-----------------------------------------------------------------------------
(* remove_duplicates *)

\* drop_duplicates with keep='last'
RECURSIVE DropDuplicatesKeepLast(_, _)
DropDuplicatesKeepLast(rows, seen) ==
    IF rows = <<>> THEN <<>>
    ELSE IF \E i \in 2..Len(rows) : rows[i].message_hash = Head(rows).message_hash
         THEN DropDuplicatesKeepLast(Tail(rows), seen)
         ELSE <<Head(rows)>> \o DropDuplicatesKeepLast(Tail(rows), seen)

\* df.drop_duplicates(subset=['message_hash'], keep='first')
RECURSIVE DropDuplicates(_, _)
DropDuplicates(rows, seen) ==
    IF rows = <<>> THEN <<>>
    ELSE IF Head(rows).message_hash \in seen
         THEN DropDuplicates(Tail(rows), seen)
         ELSE <<Head(rows)>>
              \o DropDuplicates(Tail(rows), seen \cup {Head(rows).message_hash})

-----------------------------------------------------------------------------
(* check_timestamp_drift *)

\* numpy argsort of keys none of which is missing.  A stable sort keeps equal
\* keys in input order; the quicksort pandas asks for need not, which
\* "reversed" stands for (equal keys come out in reverse input order).
RECURSIVE InsertAll(_, _, _)
InsertAll(todo, keys, sorted) ==
    IF todo = <<>> THEN sorted
    ELSE LET i == Head(todo)
             k == Cardinality({j \in 1..Len(sorted) : keys[sorted[j]] <= keys[i]})
         IN  InsertAll(Tail(todo), keys,
                       SubSeq(sorted, 1, k) \o <<i>> \o SubSeq(sorted, k + 1, Len(sorted)))

ArgSort(positions, keys, kind) ==
    InsertAll(IF kind = "stable" THEN positions ELSE Reverse(positions), keys, <<>>)

\* df.sort_values(column).reset_index(drop=True): rows with a key sorted
\* ascending, rows whose key is missing after them in their input order
SortValues(rows, keys, kind) ==
    LET all     == [i \in 1..Len(rows) |-> i]
        valid   == SelectSeq(all, LAMBDA i : keys[i] # NoTs)
        missing == SelectSeq(all, LAMBDA i : keys[i] = NoTs)
        order   == ArgSort(valid, keys, kind) \o missing
    IN  [i \in 1..Len(rows) |-> rows[order[i]]]

\* df['timestamp'].diff(): None for the first row and wherever either
\* operand is NaT
TimeDiff(rows, i) ==
    IF i = 1 \/ rows[i].timestamp = NoTs \/ rows[i - 1].timestamp = NoTs
    THEN None
    ELSE Some(rows[i].timestamp - rows[i - 1].timestamp)

\* a flag on every jump beyond the threshold, forward or backward
HasDriftEitherWay(time_diff, threshold_seconds) ==
    time_diff # None
    /\ (time_diff[1] < -threshold_seconds \/ time_diff[1] > threshold_seconds)

\* df['time_diff'] < timedelta(seconds=-threshold_seconds)
HasDrift(time_diff, threshold_seconds) ==
    time_diff # None /\ time_diff[1] < -threshold_seconds

WithDrift(r, time_diff, has_drift) ==
    [index |-> r.index, timestamp |-> r.timestamp, sender |-> r.sender,
     recipient |-> r.recipient, message |-> r.message, urls |-> r.urls,
     url_count |-> r.url_count, attachments |-> r.attachments,
     attachment_count |-> r.attachment_count, has_urls |-> r.has_urls,
     has_attachments |-> r.has_attachments, message_hash |-> r.message_hash,
     time_diff |-> time_diff, has_drift |-> has_drift]

\* the branch taken when the frame has no timestamp column (it is empty) or
\* no row has a timestamp; that branch adds no time_diff column, for which
\* a time_diff of None stands
NoValidTimestamps(rows) == \A i \in 1..Len(rows) : rows[i].timestamp = NoTs

\* the rows after the flagging pass, still in original order
FlagDrift(rows, threshold_seconds) ==
    LET byIndex == SortValues(rows, [i \in 1..Len(rows) |-> rows[i].index], "stable")
    IN  [i \in 1..Len(byIndex) |->
            WithDrift(byIndex[i], TimeDiff(byIndex, i),
                      HasDrift(TimeDiff(byIndex, i), threshold_seconds))]

\* check_timestamp_drift without the final sort by timestamp
CheckTimestampDriftUnsorted(rows, threshold_seconds, kind) ==
    IF NoValidTimestamps(rows)
    THEN [i \in 1..Len(rows) |-> WithDrift(rows[i], None, FALSE)]
    ELSE FlagDrift(rows, threshold_seconds)

\* the frame check_timestamp_drift returns
CheckTimestampDrift(rows, threshold_seconds, kind) ==
    IF NoValidTimestamps(rows)
    THEN [i \in 1..Len(rows) |-> WithDrift(rows[i], None, FALSE)]
    ELSE LET flagged == FlagDrift(rows, threshold_seconds)
         IN  SortValues(flagged,
                        [i \in 1..Len(flagged) |-> flagged[i].timestamp], kind)

DriftCount(rows) == Cardinality({i \in 1..Len(rows) : rows[i].has_drift})

-----------------------------------------------------------------------------
(* save_to_excel *)

\* export_df['timestamp'].dt.strftime(...): NaT stays missing
ExportRow(r) ==
    [timestamp |-> IF r.timestamp = NoTs THEN None ELSE Some(TsStr(r.timestamp)),
     sender |-> r.sender, recipient |-> r.recipient, message |-> r.message,
     url_count |-> r.url_count, urls |-> r.urls,
     attachment_count |-> r.attachment_count, attachments |-> r.attachments,
     has_drift |-> r.has_drift]

\* the .dt accessor exists only on a datetime column: a non-empty frame whose
\* timestamps are all None keeps an object column, and the export raises
ExportRaises(rows) == rows # <<>> /\ NoValidTimestamps(rows)

-----------------------------------------------------------------------------
(* The run: parse_html, remove_duplicates, check_timestamp_drift,           *)
(* save_to_excel, as convert() and run_conversion() call them               *)

InitStats ==
    [total_messages |-> 0, duplicates_removed |-> 0, timestamp_drifts |-> 0,
     errors |-> 0, urls_extracted |-> 0, attachments_found |-> 0,
     messages_with_urls |-> 0, messages_with_attachments |-> 0]

\* the window after ConverterGUI.__init__
NoGui ==
    /\ selected_file = None
    /\ is_converting = FALSE
    /\ convert_button = "disabled"
    /\ browse_button = "normal"
    /\ workers = 0
    /\ after_queue = <<>>

\* the state after TeamsChartConverter.__init__, for a document and a driver
Constructed(doc, who, kind) ==
    /\ soup = doc
    /\ readable = TRUE
    /\ today = 0
    /\ caller = who
    /\ sort_kind = kind
    /\ pc = "start"
    /\ message_elements = <<>>
    /\ idx = 0
    /\ messages = <<>>
    /\ df = <<>>
    /\ stats = InitStats
    /\ last_urls = <<>>
    /\ last_attachments = <<>>
    /\ excel = None
    /\ runs = 1
    /\ prev = None
    /\ NoGui

\* parse_html up to the loop: the file is read (a failure to read it is
\* raised again), the document is parsed and the message elements are looked
\* up
FindElements ==
    /\ pc = "start"
    /\ IF readable
       THEN /\ message_elements' = FindMessageElements(soup)
            /\ idx' = 0
            /\ messages' = <<>>
            /\ pc' = "parse"
       ELSE /\ pc' = "failed"
            /\ UNCHANGED <<message_elements, idx, messages>>
    /\ UNCHANGED <<soup, readable, caller, sort_kind, df, stats, last_urls,
                   last_attachments, excel, history, gui>>

\* _extract_message_data(e, ...) raises: the body is not empty and the hash
\* cannot be computed.  Nothing else in it raises: _parse_timestamp,
\* _classify_url, _parse_attachment_element and _extract_filename_from_url
\* catch what they raise.
ExtractRaises(e) ==
    /\ ExtractMessageText(e) # <<>>
    /\ HashRaises(ExtractTimestamp(e), ExtractSender(e), ExtractMessageText(e))

\* one iteration of the parse_html loop that lets the exception go
ParseElementUncaught ==
    /\ pc = "parse"
    /\ idx < Len(message_elements)
    /\ LET e == message_elements[idx + 1]
           u == ExtractUrls(e)
           a == ExtractAttachments(e)
       IN  /\ stats' = StatsAfterExtract(stats, u, a)
           /\ last_urls' = u
           /\ last_attachments' = a
           /\ IF ExtractRaises(e)
              THEN pc' = "failed" /\ UNCHANGED <<messages, idx>>
              ELSE /\ messages' = IF ExtractMessageText(e) # <<>>
                                  THEN Append(messages, MessageData(e, idx))
                                  ELSE messages
                   /\ idx' = idx + 1
                   /\ pc' = pc
    /\ UNCHANGED <<soup, readable, caller, sort_kind, message_elements, df,
                   excel, history, gui>>

\* one iteration of the parse_html loop: _extract_message_data inside try
\* (the statistics are updated before the body is tested and the hash is
\* computed), the except branch counting an error
ParseElement ==
    /\ pc = "parse"
    /\ idx < Len(message_elements)
    /\ LET e == message_elements[idx + 1]
           u == ExtractUrls(e)
           a == ExtractAttachments(e)
       IN  /\ last_urls' = u
           /\ last_attachments' = a
           /\ IF ExtractRaises(e)
              THEN /\ stats' = [StatsAfterExtract(stats, u, a) EXCEPT !.errors = @ + 1]
                   /\ UNCHANGED messages
              ELSE /\ stats' = StatsAfterExtract(stats, u, a)
                   /\ messages' = IF ExtractMessageText(e) # <<>>
                                  THEN Append(messages, MessageData(e, idx))
                                  ELSE messages
    /\ idx' = idx + 1
    /\ UNCHANGED <<soup, readable, caller, sort_kind, pc, message_elements, df,
                   excel, history, gui>>

\* the end of parse_html, and convert()'s test for an empty frame
ParseFinish ==
    /\ pc = "parse"
    /\ idx = Len(message_elements)
    /\ stats' = [stats EXCEPT !.total_messages = Len(messages)]
    /\ df' = messages
    /\ pc' = IF caller = "convert" /\ messages = <<>> THEN "failed" ELSE "dedup"
    /\ UNCHANGED <<soup, readable, caller, sort_kind, message_elements, idx,
                   messages, last_urls, last_attachments, excel, history, gui>>

\* remove_duplicates
RemoveDuplicates ==
    /\ pc = "dedup"
    /\ LET kept == DropDuplicates(df, {})
       IN  /\ df' = kept
           /\ stats' = [stats EXCEPT !.duplicates_removed = Len(df) - Len(kept)]
    /\ pc' = "drift"
    /\ UNCHANGED <<soup, readable, caller, sort_kind, message_elements, idx,
                   messages, last_urls, last_attachments, excel, history, gui>>

\* check_timestamp_drift
CheckDrift ==
    /\ pc = "drift"
    /\ df' = CheckTimestampDrift(df, DriftThreshold, sort_kind)
    /\ stats' = IF NoValidTimestamps(df) THEN stats
                ELSE [stats EXCEPT !.timestamp_drifts =
                          DriftCount(FlagDrift(df, DriftThreshold))]
    /\ pc' = "save"
    /\ UNCHANGED <<soup, readable, caller, sort_kind, message_elements, idx,
                   messages, last_urls, last_attachments, excel, history, gui>>

\* save_to_excel, then the end of the run
SaveToExcel ==
    /\ pc = "save"
    /\ IF ExportRaises(df)
       THEN pc' = "failed" /\ UNCHANGED excel
       ELSE /\ excel' = Some([i \in 1..Len(df) |-> ExportRow(df[i])])
            /\ pc' = "done"
    /\ UNCHANGED <<soup, readable, caller, sort_kind, message_elements, idx,
                   messages, df, stats, last_urls, last_attachments, history, gui>>

\* one run: convert(), or the step sequence of run_conversion()
Next ==
    \/ FindElements
    \/ ParseElement
    \/ ParseFinish
    \/ RemoveDuplicates
    \/ CheckDrift
    \/ SaveToExcel

\* how a run ended
Outcome == [pc |-> pc, df |-> df]

\* the next run on the same document, at the same or a later date: convert()
\* is called again on the same converter, whereas run_conversion() makes a
\* new converter for every run
ConvertAgain ==
    /\ pc \in {"done", "failed"}
    /\ runs < MaxRuns
    /\ runs' = runs + 1
    /\ prev' = Some(Outcome)
    /\ today' \in {d \in Dates : d >= today}
    /\ stats' = IF caller = "gui" THEN InitStats ELSE stats
    /\ pc' = "start"
    /\ UNCHANGED <<soup, readable, caller, sort_kind, message_elements, idx,
                   messages, df, last_urls, last_attachments, excel, gui>>

NextAgain == Next \/ ConvertAgain

-----------------------------------------------------------------------------
(* Documents *)

Http == <<"http://", "host", "/", "page">>
HttpPdf == <<"http://", "host", "/", "f", ".pdf">>

Blank ==
    [tag |-> "div", classes |-> {"message"}, data_type |-> "", times |-> <<>>,
     senders |-> <<>>, recipients |-> <<>>, contents |-> <<>>, text |-> <<>>,
     anchors |-> <<>>, text_urls |-> <<>>, att_elems |-> <<>>,
     icon_parents |-> <<>>]

TimeAttr(t) == [attr |-> TRUE, text |-> <<ToString(t)>>]
TimeElem(t) == [attr |-> FALSE, text |-> <<ToString(t)>>]

Msg(t, sender, body) ==
    [Blank EXCEPT !.times = <<TimeAttr(t)>>, !.senders = <<sender>>,
                  !.contents = <<body>>]

\* message elements of the main specification
Elems ==
    { Msg(0, <<"a">>, <<"b">>),
      [Msg(0, <<"a">>, <<"b">>) EXCEPT
          !.anchors = <<[href |-> HttpPdf, text |-> <<"f">>]>>],
      Msg(400, <<"a">>, <<" ", "b", " ">>),
      [Blank EXCEPT !.senders = << <<"a">> >>, !.contents = << <<"c">> >>],
      [Blank EXCEPT !.times = <<TimeElem(0)>>],
      [Blank EXCEPT !.contents = << <<" ">> >>, !.text = <<" ", " ">>],
      [Blank EXCEPT !.contents = << <<" ">> >>,
                    !.anchors = <<[href |-> Http, text |-> <<>>]>>],
      Msg(0, <<Surrogate>>, <<"b">>),
      Msg(0, <<"a", "b">>, <<"c">>),
      Msg(0, <<"a">>, <<"b", "c">>) }

Callers == {"convert", "gui"}
SortKinds == {"stable", "reversed"}

Init ==
    \E doc \in SeqsUpTo(Elems, MaxDoc), who \in Callers, kind \in SortKinds :
        Constructed(doc, who, kind)

Spec == Init /\ [][Next]_vars

\* Documents for the drift detector: every instant of TimeVals, two records
\* that share an instant, and two records without a timestamp
DriftElems ==
    { [Blank EXCEPT !.times = <<TimeAttr(t)>>, !.contents = << <<"a">> >>] :
          t \in TimeVals }
    \cup { [Blank EXCEPT !.times = <<TimeAttr(0)>>, !.contents = << <<"b">> >>],
           [Blank EXCEPT !.contents = << <<"a">> >>],
           [Blank EXCEPT !.contents = << <<"b">> >>] }

InitDrift ==
    \E doc \in SeqsUpTo(DriftElems, MaxDriftDoc), kind \in SortKinds :
        Constructed(doc, "convert", kind)

SpecDrift == InitDrift /\ [][Next]_vars

\* Documents for structure discovery: one element per way of matching or
\* missing the selectors, each told apart by its body
Kind(tag, classes, data_type, body) ==
    [Blank EXCEPT !.tag = tag, !.classes = classes, !.data_type = data_type,
                  !.contents = << <<body>> >>]

SoupElems ==
    { Kind("div", {"message"}, "", "1"),
      Kind("div", {"chat-message"}, "", "2"),
      Kind("div", {"msg", "chat-message"}, "", "3"),
      Kind("tr", {"message-row"}, "", "4"),
      Kind("div", {}, "message", "5"),
      Kind("div", {"Chat-Message-Card"}, "", "6"),
      Kind("div", {"chat-box"}, "", "7"),
      Kind("div", {"note"}, "", "8"),
      Kind("div", {"message-row"}, "", "9"),
      Kind("p", {"message"}, "", "0") }

InitDiscover ==
    \E doc \in SeqsUpTo(SoupElems, MaxSoup), who \in Callers :
        Constructed(doc, who, "stable")

SpecDiscover == InitDiscover /\ [][Next]_vars

\* Documents for the URL extractor: one message element whose hyperlinks and
\* free-text matches vary
Https == <<"https://", "other", "/", "page">>

UrlAnchors ==
    { [href |-> Http, text |-> <<"t">>],
      [href |-> <<" ">> \o Http \o <<" ">>, text |-> <<" ">>],
      [href |-> HttpPdf, text |-> <<>>],
      [href |-> <<"mailto:", "x">>, text |-> <<"m">>],
      [href |-> <<"javascript:", "f">>, text |-> <<"j">>],
      [href |-> <<"#", "top">>, text |-> <<"h">>],
      [href |-> <<"tel:", "1">>, text |-> <<"p">>],
      [href |-> <<>>, text |-> <<"e">>] }

\* what url_pattern can match: text that starts with http:// or https://
TextUrls == {Http, Https}

UrlElems ==
    { [Blank EXCEPT !.contents = << <<"a">> >>, !.anchors = links,
                    !.text_urls = matches] :
          links \in SeqsUpTo(UrlAnchors, MaxAnchors),
          matches \in SeqsUpTo(TextUrls, MaxTextUrls) }

InitUrls == \E e \in UrlElems : Constructed(<<e>>, "gui", "stable")

SpecUrls == InitUrls /\ [][Next]_vars

\* Documents for the attachment extractor: one message element whose
\* attachment-role elements, icon parents and hyperlinks vary
AttElem(tag, labels, text, own_href, inner_href, size) ==
    [tag |-> tag, labels |-> labels, text |-> text, own_href |-> own_href,
     inner_href |-> inner_href, size |-> size]

FPdf == <<"f", ".pdf">>

RoleElems ==
    { AttElem("span", <<>>, FPdf, None, None, None),
      AttElem("div", <<>>, <<" ">> \o FPdf, None, None, None),
      AttElem("a", <<>>, FPdf, Some(HttpPdf), None, None),
      AttElem("div", << <<>>, <<"r", ".XLSX">> >>, <<"x">>, None, Some(HttpPdf),
              Some(<<"1", "K", "B">>)),
      AttElem("li", <<>>, <<" ">>, None, None, None) }

IconParents ==
    { AttElem("span", <<>>, FPdf, None, None, None),
      AttElem("div", <<>>, <<"g", ".png">>, None, None, None) }

DownloadAnchors ==
    { [href |-> HttpPdf, text |-> <<"f">>],
      [href |-> <<"http://", "host", "/", "Download">>, text |-> <<"d">>] }

AttachmentElems ==
    { [Blank EXCEPT !.contents = << <<"a">> >>, !.att_elems = roles,
                    !.icon_parents = parents, !.anchors = links] :
          roles \in SeqsUpTo(RoleElems, MaxAttElems),
          parents \in SeqsUpTo(IconParents, MaxIcons),
          links \in SeqsUpTo(DownloadAnchors, MaxDownloads) }

InitAtts == \E e \in AttachmentElems : Constructed(<<e>>, "gui", "stable")

SpecAtts == InitAtts /\ [][Next]_vars

\* Documents for the URL classifier: one message element with one hyperlink
\* whose host joins up to MaxHostParts names (so that several host rules can
\* apply to it) and whose path ends in a document extension, a media
\* extension, or neither
HostNames ==
    {"contoso.sharepoint.com", "teams.microsoft.com", "onedrive.live.com",
     "dropbox.com", "zoom.us", "host"}

UrlPaths ==
    { <<>>, <<"/", "page">>, <<"/", "f", ".pdf">>, <<"/", "f", ".PDF">>,
      <<"/", "g", ".png">> }

ClassifyUrls ==
    { <<"https://">> \o host \o path :
          host \in SeqsUpTo(HostNames, MaxHostParts) \ {<<>>}, path \in UrlPaths }

ClassifyElems ==
    { [Blank EXCEPT !.contents = << <<"a">> >>,
                    !.anchors = <<[href |-> url, text |-> <<"t">>]>>] :
          url \in ClassifyUrls }

InitClassify == \E e \in ClassifyElems : Constructed(<<e>>, "gui", "stable")

SpecClassify == InitClassify /\ [][Next]_vars

\* Documents that are converted more than once: a message with a link, a
\* later message, a message whose time element holds a time of day only, and
\* a message with a link whose sender cannot be encoded
AgainElems ==
    { [Msg(0, <<"a">>, <<"b">>) EXCEPT
          !.anchors = <<[href |-> HttpPdf, text |-> <<"f">>]>>],
      Msg(400, <<"a">>, <<"d">>),
      [Blank EXCEPT !.times = <<[attr |-> FALSE, text |-> <<ClockText>>]>>,
                    !.contents = << <<"c">> >>],
      [Msg(0, <<Surrogate>>, <<"b">>) EXCEPT
          !.anchors = <<[href |-> Http, text |-> <<"t">>]>>] }

InitAgain ==
    \E doc \in SeqsUpTo(AgainElems, MaxAgainDoc), who \in Callers, kind \in SortKinds :
        Constructed(doc, who, kind)

SpecAgain == InitAgain /\ [][NextAgain]_vars

-----------------------------------------------------------------------------
(* The window: ConverterGUI.  The event loop runs one handler or scheduled  *)
(* callback at a time; run_conversion runs in a thread of its own and goes  *)
(* through the steps of a run one by one.                                   *)

\* a file the user can pick: whether Path.exists(), whether its suffix is
\* .html or .htm, whether it can be read, and the document in it
GuiFile(name, exists, html, canRead, doc) ==
    [name |-> name, exists |-> exists, html |-> html, readable |-> canRead,
     doc |-> doc]

Files ==
    { GuiFile("chat.html", TRUE, TRUE, TRUE, <<Msg(0, <<"a">>, <<"b">>)>>),
      GuiFile("empty.htm", TRUE, TRUE, TRUE, <<>>),
      GuiFile("notes.txt", TRUE, FALSE, TRUE,
              <<[Blank EXCEPT !.contents = << <<"c">> >>]>>),
      GuiFile("gone.html", FALSE, TRUE, FALSE, <<>>),
      GuiFile("locked.html", TRUE, TRUE, FALSE, <<>>) }

\* select_file: a file that does not exist, or that is no HTML file and is
\* not confirmed, is not selected
SelectFile(file, response) ==
    IF ~file.exists \/ (~file.html /\ ~response)
    THEN UNCHANGED gui
    ELSE /\ selected_file' = Some(file)
         /\ convert_button' = "normal"
         /\ UNCHANGED <<is_converting, browse_button, workers, after_queue>>

\* the test at the head of browse_file
CanBrowse == ~is_converting

\* browse_file: the dialog returns a file or nothing
BrowseFile ==
    /\ IF ~CanBrowse
       THEN UNCHANGED gui
       ELSE \E file_path \in {None} \cup {Some(f) : f \in Files}, response \in BOOLEAN :
                IF file_path = None THEN UNCHANGED gui
                ELSE SelectFile(file_path[1], response)
    /\ UNCHANGED <<run, history>>

\* start_conversion goes on although a conversion runs
CanStartWhileBusy == selected_file # None

\* the test at the head of start_conversion
CanStart == selected_file # None /\ ~is_converting

\* start_conversion: the controls are disabled and the thread is started
StartConversion ==
    IF ~CanStart
    THEN UNCHANGED vars
    ELSE /\ runs < MaxRuns
         /\ runs' = runs + 1
         /\ is_converting' = TRUE
         /\ convert_button' = "disabled"
         /\ browse_button' = "disabled"
         /\ workers' = workers + 1
         /\ pc' = "spawned"
         /\ UNCHANGED <<soup, readable, caller, sort_kind, message_elements, idx,
                        messages, df, stats, last_urls, last_attachments, excel,
                        today, prev, selected_file, after_queue>>

\* run_conversion, first statement: a converter for the selected file
RunConversionBegin ==
    /\ pc = "spawned"
    /\ soup' = selected_file[1].doc
    /\ readable' = selected_file[1].readable
    /\ pc' = "start"
    /\ message_elements' = <<>>
    /\ idx' = 0
    /\ messages' = <<>>
    /\ df' = <<>>
    /\ stats' = InitStats
    /\ last_urls' = <<>>
    /\ last_attachments' = <<>>
    /\ UNCHANGED <<caller, sort_kind, excel, history, gui>>

\* the end of run_conversion without its finally clause
RunConversionEndNoFinally ==
    /\ pc \in {"done", "failed"}
    /\ workers > 0
    /\ after_queue' = IF pc = "done"
                      THEN after_queue \o <<"show_success_dialog", "reset_ui">>
                      ELSE Append(after_queue, "showerror")
    /\ workers' = workers - 1
    /\ pc' = "idle"
    /\ UNCHANGED <<soup, readable, caller, sort_kind, message_elements, idx,
                   messages, df, stats, last_urls, last_attachments, excel,
                   history, selected_file, is_converting, convert_button,
                   browse_button>>

\* the end of run_conversion: the success dialog is scheduled after the last
\* step, the error dialog in the except clause, reset_ui in the finally
\* clause, and the thread ends
RunConversionEnd ==
    /\ pc \in {"done", "failed"}
    /\ workers > 0
    /\ after_queue' = after_queue
                      \o <<IF pc = "done" THEN "show_success_dialog" ELSE "showerror",
                           "reset_ui">>
    /\ workers' = workers - 1
    /\ pc' = "idle"
    /\ UNCHANGED <<soup, readable, caller, sort_kind, message_elements, idx,
                   messages, df, stats, last_urls, last_attachments, excel,
                   history, selected_file, is_converting, convert_button,
                   browse_button>>

\* the event loop runs a scheduled dialog
ShowDialog ==
    /\ after_queue # <<>>
    /\ Head(after_queue) \in {"show_success_dialog", "showerror"}
    /\ after_queue' = Tail(after_queue)
    /\ UNCHANGED <<run, history, selected_file, is_converting, convert_button,
                   browse_button, workers>>

\* the event loop runs the scheduled reset_ui
ResetUi ==
    /\ after_queue # <<>>
    /\ Head(after_queue) = "reset_ui"
    /\ after_queue' = Tail(after_queue)
    /\ is_converting' = FALSE
    /\ convert_button' = "normal"
    /\ browse_button' = "normal"
    /\ UNCHANGED <<run, history, selected_file, workers>>

\* the state after ConverterGUI.__init__: no converter yet
InitGui ==
    /\ soup = <<>>
    /\ readable = TRUE
    /\ today = 0
    /\ caller = "gui"
    /\ sort_kind = "stable"
    /\ pc = "idle"
    /\ message_elements = <<>>
    /\ idx = 0
    /\ messages = <<>>
    /\ df = <<>>
    /\ stats = InitStats
    /\ last_urls = <<>>
    /\ last_attachments = <<>>
    /\ excel = None
    /\ runs = 0
    /\ prev = None
    /\ NoGui

\* the steps of the thread
Worker ==
    \/ RunConversionBegin
    \/ Next
    \/ RunConversionEnd

\* the steps of the event loop that nobody has to click for
MainLoop == ShowDialog \/ ResetUi

NextGui ==
    \/ BrowseFile
    \/ StartConversion
    \/ RunConversionBegin
    \/ FindElements
    \/ ParseElement
    \/ ParseFinish
    \/ RemoveDuplicates
    \/ CheckDrift
    \/ SaveToExcel
    \/ RunConversionEnd
    \/ ShowDialog
    \/ ResetUi

SpecGui == InitGui /\ [][NextGui]_vars

\* the thread is scheduled and the event loop runs what is scheduled
SpecGuiLive == SpecGui /\ WF_vars(Worker) /\ WF_vars(MainLoop)

-----------------------------------------------------------------------------
(* Properties *)

\* positions of `messages` that hold the first record of their fingerprint
FirstOccurrences ==
    {i \in 1..Len(messages) :
        \A j \in 1..(i - 1) : messages[j].message_hash # messages[i].message_hash}

\* position in `messages` of the first record with fingerprint h
FirstWith(h) ==
    CHOOSE i \in FirstOccurrences : messages[i].message_hash = h

\* C1: once remove_duplicates has returned, its result holds exactly one
\* record per fingerprint of its input, that record is the first of the input
\* with the fingerprint, the kept records are in input order, and
\* duplicates_removed is the input length minus the number of fingerprints.
C1_DedupStableFirst ==
    pc = "drift" =>
        /\ Len(df) = Cardinality(FirstOccurrences)
        /\ \A i \in 1..Len(messages) :
              Cardinality({j \in 1..Len(df) :
                  df[j].message_hash = messages[i].message_hash}) = 1
        /\ \A j \in 1..Len(df) : df[j] = messages[FirstWith(df[j].message_hash)]
        /\ \A j, k \in 1..Len(df) :
              j < k => FirstWith(df[j].message_hash) < FirstWith(df[k].message_hash)
        /\ stats.duplicates_removed = Len(messages) - Cardinality(FirstOccurrences)

\* a duplicate that is not adjacent to its first occurrence has been removed
C1_Witness ==
    /\ pc = "drift"
    /\ Len(messages) = 3
    /\ Len(df) = 2
    /\ messages[1].message_hash = messages[3].message_hash
    /\ messages[1] # messages[3]
    /\ stats.duplicates_removed = 1

\* some string of the element holds a character that is not white space
HasInk(e) ==
    \E i \in 1..Len(ElementStrings(e)) :
        \E k \in 1..Len(ElementStrings(e)[i]) : ElementStrings(e)[i][k] # " "

BodyOk(r) ==
    /\ r.message # <<>>
    /\ \E k \in 1..Len(r.message) : r.message[k] # " "
    /\ HasInk(message_elements[r.index + 1])

\* C5: at every stage every record has a non-empty body, and an element whose
\* text is empty or white space only has no record.
C5_BodyNonEmpty ==
    /\ \A i \in 1..Len(messages) : BodyOk(messages[i])
    /\ \A i \in 1..Len(df) : BodyOk(df[i])
    /\ excel # None => \A i \in 1..Len(excel[1]) : excel[1][i].message # <<>>

\* a white-space-only element was passed over and a later element gave a record
C5_Witness ==
    /\ pc = "done"
    /\ Len(message_elements) = 2
    /\ ~HasInk(message_elements[1])
    /\ Len(df) = 1
    /\ df[1].index = 1

\* C6: after parse_html the number of discovered elements is the number of
\* records plus the error count (every discarded element counted an error).
C6_DiscardCountsError ==
    pc \notin {"start", "parse"} =>
        Len(message_elements) = Len(messages) + stats.errors

SameContent(r1, r2) ==
    /\ r1.timestamp = r2.timestamp
    /\ r1.sender = r2.sender
    /\ r1.message = r2.message

\* C7: two records with the same timestamp, sender and body have the same
\* fingerprint whatever their index, links and attachments, and after
\* remove_duplicates only the earliest record of that content is left.
C7_FingerprintStable ==
    /\ \A i, j \in 1..Len(messages) :
          SameContent(messages[i], messages[j])
              => messages[i].message_hash = messages[j].message_hash
    /\ pc = "drift" =>
          \A i, j \in 1..Len(messages) :
              (i < j /\ SameContent(messages[i], messages[j])) =>
                  /\ \A k \in 1..Len(df) : df[k].index # messages[j].index
                  /\ Cardinality({k \in 1..Len(df) :
                         SameContent(df[k], messages[i])}) = 1
                  /\ \E k \in 1..Len(df) :
                         /\ SameContent(df[k], messages[i])
                         /\ df[k].index <= messages[i].index

\* the run is past check_timestamp_drift
AfterDrift == pc \in {"save", "done"} \/ (pc = "failed" /\ df # <<>>)

\* rows of df that precede row i in original document order
Before(i) == {k \in 1..Len(df) : df[k].index < df[i].index}

\* the latest row of a non-empty set of rows, in original document order
Latest(rows) == CHOOSE k \in rows : \A m \in rows : df[m].index <= df[k].index

\* row i jumps back by more than the threshold relative to row k
JumpsBackFrom(i, k) == df[k].timestamp - df[i].timestamp > DriftThreshold

\* C2: when every record has a timestamp, a record is flagged exactly when
\* its timestamp is more than the threshold earlier than that of its
\* immediate predecessor in original document order; in particular original
\* timestamps T, T+10, T-400, T-390 flag the third record only.
C2_DriftFlagsBackwardJumps ==
    (AfterDrift /\ \A i \in 1..Len(df) : df[i].timestamp # NoTs) =>
        /\ \A i \in 1..Len(df) :
              df[i].has_drift <=>
                  (Before(i) # {} /\ JumpsBackFrom(i, Latest(Before(i))))
        /\ \A a, b, c, d \in 1..Len(df) :
              ( /\ Len(df) = 4
                /\ df[a].index < df[b].index
                /\ df[b].index < df[c].index
                /\ df[c].index < df[d].index
                /\ df[a].timestamp = 400 /\ df[b].timestamp = 410
                /\ df[c].timestamp = 0 /\ df[d].timestamp = 10 )
              => ( /\ ~df[a].has_drift /\ ~df[b].has_drift
                   /\ df[c].has_drift /\ ~df[d].has_drift )

\* original timestamps 400, 410, 0, 10: the third record is flagged and the
\* result is in chronological order
C2_Witness ==
    /\ pc = "save"
    /\ Len(df) = 4
    /\ df[1].timestamp = 0 /\ df[1].index = 2 /\ df[1].has_drift
    /\ df[2].timestamp = 10 /\ df[2].index = 3 /\ ~df[2].has_drift
    /\ df[3].timestamp = 400 /\ df[3].index = 0 /\ ~df[3].has_drift
    /\ df[4].timestamp = 410 /\ df[4].index = 1 /\ ~df[4].has_drift

\* rows with a timestamp that precede row i in original document order
StampedBefore(i) == {k \in Before(i) : df[k].timestamp # NoTs}

\* C3: a record without a timestamp is never flagged, and a record with a
\* timestamp is flagged exactly when it jumps back by more than the threshold
\* relative to the nearest preceding record that has a timestamp.
C3_DriftSkipsMissing ==
    AfterDrift =>
        \A i \in 1..Len(df) :
            IF df[i].timestamp = NoTs THEN ~df[i].has_drift
            ELSE df[i].has_drift <=>
                     ( StampedBefore(i) # {}
                       /\ JumpsBackFrom(i, Latest(StampedBefore(i))) )

\* the fields a record has before check_timestamp_drift
Base(r) ==
    [index |-> r.index, timestamp |-> r.timestamp, sender |-> r.sender,
     recipient |-> r.recipient, message |-> r.message, urls |-> r.urls,
     url_count |-> r.url_count, attachments |-> r.attachments,
     attachment_count |-> r.attachment_count, has_urls |-> r.has_urls,
     has_attachments |-> r.has_attachments, message_hash |-> r.message_hash]

\* C4: check_timestamp_drift returns all the records it was given, those
\* with a timestamp in ascending timestamp order, those without one after
\* them and in their original relative order.
C4_DriftOutputOrder ==
    AfterDrift =>
        /\ Len(df) = Cardinality(FirstOccurrences)
        /\ \A i \in FirstOccurrences :
              \E k \in 1..Len(df) : Base(df[k]) = messages[i]
        /\ \A i, j \in 1..Len(df) :
              i < j =>
                  /\ df[i].timestamp = NoTs => df[j].timestamp = NoTs
                  /\ (df[i].timestamp # NoTs /\ df[j].timestamp # NoTs)
                         => df[i].timestamp <= df[j].timestamp
                  /\ (df[i].timestamp = NoTs /\ df[j].timestamp = NoTs)
                         => df[i].index < df[j].index

\* two records without a timestamp were moved behind two records that were
\* out of chronological order
C4_Witness ==
    /\ pc = "save"
    /\ Len(df) = 4
    /\ df[1].timestamp = 0 /\ df[1].index = 3
    /\ df[2].timestamp = 400 /\ df[2].index = 1
    /\ df[3].timestamp = NoTs /\ df[3].index = 0
    /\ df[4].timestamp = NoTs /\ df[4].index = 2

\* hypothesis k of _find_message_elements: the selectors in order, then the
\* loose class pattern
Hypotheses == 1..(Len(Selectors) + 1)

Hypothesis(k, e) ==
    IF k <= Len(Selectors) THEN Matches(e, Selectors[k])
    ELSE e.tag = "div" /\ \E c \in e.classes : LooseRe(c)

Matching == {k \in Hypotheses : \E i \in 1..Len(soup) : Hypothesis(k, soup[i])}

\* C8: _find_message_elements returns the matches of the first hypothesis
\* that has a match, in document order and nothing else; when no hypothesis
\* has a match it returns every div.
C8_FirstHypothesisWins ==
    pc # "start" =>
        IF Matching # {}
        THEN LET first == CHOOSE k \in Matching : \A m \in Matching : k <= m
             IN  message_elements = SelectSeq(soup, LAMBDA e : Hypothesis(first, e))
        ELSE message_elements = SelectSeq(soup, LAMBDA e : e.tag = "div")

\* three hypotheses have a match and only the matches of the earliest are
\* returned
C8_Witness ==
    /\ pc = "parse"
    /\ Len(soup) = 3
    /\ Cardinality(Matching) >= 3
    /\ 1 \notin Matching
    /\ 2 \in Matching
    /\ Len(message_elements) = 1
    /\ Hypothesis(2, message_elements[1])

\* the element the latest loop iteration handled
Current == message_elements[idx]

LinkUrl(i) == Strip(Current.anchors[i].href)

FromLink(u) == \E i \in 1..Len(Current.anchors) : LinkUrl(i) = u

FirstLink(u) ==
    CHOOSE i \in 1..Len(Current.anchors) :
        LinkUrl(i) = u /\ \A j \in 1..(i - 1) : LinkUrl(j) # u

\* C9: the list _extract_urls returns holds no URL twice and no hyperlink
\* target that starts with javascript:, mailto:, # or tel:; the URLs taken
\* from hyperlinks come first, in hyperlink order, each with the display text
\* of its first hyperlink, and the URLs found only in the text follow.
C9_UrlListDeduplicated ==
    idx >= 1 =>
        /\ \A i, j \in 1..Len(last_urls) :
              i # j => last_urls[i].url # last_urls[j].url
        /\ \A i \in 1..Len(last_urls) :
              last_urls[i].url # <<>> /\ Head(last_urls[i].url) \notin SkipPrefixes
        /\ \A i, j \in 1..Len(last_urls) :
              (i < j /\ FromLink(last_urls[j].url)) =>
                  /\ FromLink(last_urls[i].url)
                  /\ FirstLink(last_urls[i].url) < FirstLink(last_urls[j].url)
        /\ \A i \in 1..Len(last_urls) :
              FromLink(last_urls[i].url) =>
                  LET display == Strip(Current.anchors[FirstLink(last_urls[i].url)].text)
                  IN  last_urls[i].text =
                          IF display # <<>> THEN display ELSE last_urls[i].url
        /\ \A k \in 1..Len(Current.anchors) :
              (LinkUrl(k) # <<>> /\ Head(LinkUrl(k)) \notin SkipPrefixes) =>
                  \E i \in 1..Len(last_urls) : last_urls[i].url = LinkUrl(k)
        /\ \A k \in 1..Len(Current.text_urls) :
              \E i \in 1..Len(last_urls) : last_urls[i].url = Current.text_urls[k]

\* a mailto link was skipped, a URL found by a hyperlink and by the text scan
\* is listed once with the hyperlink's text, and a URL found only in the text
\* follows it
C9_Witness ==
    /\ idx = 1
    /\ Len(Current.anchors) = 2
    /\ Current.anchors[1].href # <<>>
    /\ Head(Current.anchors[1].href) = "mailto:"
    /\ Current.anchors[2].href # LinkUrl(2)
    /\ Current.text_urls = <<Https, LinkUrl(2)>>
    /\ Len(last_urls) = 2
    /\ last_urls[1].url = LinkUrl(2)
    /\ last_urls[2].url = Https

\* C10: the list _extract_attachments returns never holds two entries equal
\* in filename, url, size and category.
C10_AttachmentsDeduplicated ==
    idx >= 1 =>
        \A i, j \in 1..Len(last_attachments) :
            i # j => last_attachments[i] # last_attachments[j]

\* the host rules of the classifier in their priority order
HostRules ==
    << [hosts |-> SharePointHosts, category |-> "SharePoint"],
       [hosts |-> TeamsHosts, category |-> "Teams"],
       [hosts |-> OneDriveHosts, category |-> "OneDrive"],
       [hosts |-> FileSharingHosts, category |-> "File Sharing"],
       [hosts |-> MeetingHosts, category |-> "Meeting"] >>

DocumentExts == {".pdf", ".doc", ".docx", ".xls", ".xlsx", ".ppt", ".pptx"}

MediaExts == {".jpg", ".jpeg", ".png", ".gif", ".mp4", ".mp3"}

\* the host rules that the host of a URL satisfies
HostRulesOf(url) ==
    {k \in 1..Len(HostRules) : ContainsAny(Netloc(Lower(url)), HostRules[k].hosts)}

\* the category the priority order gives a URL
ByPriority(url) ==
    IF HostRulesOf(url) # {}
    THEN HostRules[CHOOSE k \in HostRulesOf(url) :
                       \A m \in HostRulesOf(url) : k <= m].category
    ELSE IF EndsWithAny(UrlPath(Lower(url)), DocumentExts) THEN "Document"
    ELSE IF EndsWithAny(UrlPath(Lower(url)), MediaExts) THEN "Media"
    ELSE "Web"

\* C11: every URL that _extract_urls lists carries the category of the
\* earliest rule it satisfies in the order SharePoint host, Teams host,
\* OneDrive host, file-sharing host, meeting host, document extension, media
\* extension, else Web; a URL whose host satisfies a host rule has a host
\* category whatever the extension of its path.
C11_ClassifyPriority ==
    idx >= 1 =>
        \A i \in 1..Len(last_urls) :
            /\ last_urls[i].type = ByPriority(last_urls[i].url)
            /\ HostRulesOf(last_urls[i].url) # {}
                  => last_urls[i].type \notin {"Document", "Media", "Web"}

\* a URL whose host satisfies the file-sharing rule and, further on, the
\* SharePoint rule, and whose path ends in a document extension, was
\* classified SharePoint
C11_Witness ==
    /\ idx = 1
    /\ Len(last_urls) = 1
    /\ Netloc(last_urls[1].url) = <<"dropbox.com", "contoso.sharepoint.com">>
    /\ EndsWithAny(Lower(last_urls[1].url), DocumentExts)
    /\ last_urls[1].type = "SharePoint"

\* the elements of the current run for which _extract_message_data raised
Failed == {i \in 1..Len(message_elements) : ExtractRaises(message_elements[i])}

\* the elements of the current run in which links, attachments were found
WithUrls == {i \in 1..Len(message_elements) : ExtractUrls(message_elements[i]) # <<>>}

WithAttachments ==
    {i \in 1..Len(message_elements) : ExtractAttachments(message_elements[i]) # <<>>}

RECURSIVE SumOver(_, _)
SumOver(f, S) ==
    IF S = {} THEN 0
    ELSE LET x == CHOOSE y \in S : TRUE IN f[x] + SumOver(f, S \ {x})

\* the run has ended after parse_html went through all elements
RunEnded == pc \in {"done", "failed"} /\ message_elements # <<>> /\ idx = Len(message_elements)

\* C12: when a run has ended, every counter is what this run alone found:
\* the errors, URLs, attachments and messages with URLs or attachments of the
\* elements of this run, the duplicates this run removed and the drifts it
\* flagged.
C12_StatsResetEachRun ==
    RunEnded =>
        /\ stats.errors = Cardinality(Failed)
        /\ stats.urls_extracted =
              SumOver([i \in WithUrls |-> Len(ExtractUrls(message_elements[i]))], WithUrls)
        /\ stats.messages_with_urls = Cardinality(WithUrls)
        /\ stats.attachments_found =
              SumOver([i \in WithAttachments |->
                          Len(ExtractAttachments(message_elements[i]))], WithAttachments)
        /\ stats.messages_with_attachments = Cardinality(WithAttachments)
        /\ stats.total_messages = Len(messages)
        /\ df # <<>> => stats.duplicates_removed = Len(messages) - Len(df)
        /\ df # <<>> => stats.timestamp_drifts = DriftCount(df)

\* C16: when a run on a document ends and an earlier run on the same
\* document has ended, both ended alike: in success or failure alike, and
\* with the same records in the same order, with the same field values and
\* drift flags.
C16_SameOutputTwice ==
    (prev # None /\ pc \in {"done", "failed"}) => Outcome = prev[1]

\* parse_html has returned
Parsed == pc \notin {"start", "parse"} /\ idx = Len(message_elements)

\* the record of element i, if it has one
RecordsOf(i) == {k \in 1..Len(messages) : messages[k].index = i - 1}

\* C13: after parse_html every element with a non-empty body has its record,
\* in which a field whose extraction gave nothing has its default: no
\* timestamp, sender and recipient Unknown, no links, no attachments.
C13_FieldFailureContained ==
    Parsed =>
        \A i \in 1..Len(message_elements) :
            LET e == message_elements[i]
            IN  ExtractMessageText(e) # <<>> =>
                    \E k \in RecordsOf(i) :
                        /\ e.times = <<>> => messages[k].timestamp = NoTs
                        /\ e.senders = <<>> => messages[k].sender = Unknown
                        /\ e.recipients = <<>> => messages[k].recipient = Unknown
                        /\ (e.anchors = <<>> /\ e.text_urls = <<>>)
                              => messages[k].url_count = 0
                        /\ (e.anchors = <<>> /\ e.att_elems = <<>>
                               /\ e.icon_parents = <<>>)
                              => messages[k].attachment_count = 0

\* the elements among the first n for which _extract_message_data returned
\* a record
Succeeded(n) ==
    {i \in 1..n : /\ ~ExtractRaises(message_elements[i])
                  /\ ExtractMessageText(message_elements[i]) # <<>>}

\* C14: an exception of _extract_message_data never ends the loop of
\* parse_html: a run fails only after the loop has handled every element,
\* and at any time the records are those of the handled elements for which
\* the call returned one, in element order, and the error counter is the
\* number of handled elements for which the call raised.
C14_ElementFailureContained ==
    /\ (pc = "failed" /\ readable) => idx = Len(message_elements)
    /\ pc # "start" =>
          /\ Len(messages) = Cardinality(Succeeded(idx))
          /\ \A i \in Succeeded(idx) :
                \E k \in 1..Len(messages) :
                    messages[k] = MessageData(message_elements[i], i - 1)
          /\ \A k, l \in 1..Len(messages) :
                k < l => messages[k].index < messages[l].index
          /\ stats.errors = Cardinality({i \in Failed : i <= idx})

\* the call raised for the second of three elements, and the first and the
\* third have their records
C14_Witness ==
    /\ Parsed
    /\ Len(message_elements) = 3
    /\ Failed = {2}
    /\ stats.errors = 1
    /\ Len(messages) = 2
    /\ messages[1].index = 0
    /\ messages[2].index = 2

\* C15: a run in which parse_html returned no record does not get to the end
\* of save_to_excel, and no report is written.
C15_NoRecordsNoReport ==
    (Parsed /\ messages = <<>>) => (pc # "done" /\ excel = None)

\* C17: two records that differ in timestamp, sender or body have different
\* fingerprints, and after remove_duplicates a record of each of the two
\* contents is left.
C17_DistinctContentSurvives ==
    \A i, j \in 1..Len(messages) :
        ~SameContent(messages[i], messages[j]) =>
            /\ messages[i].message_hash # messages[j].message_hash
            /\ pc = "drift" => \E k \in 1..Len(df) : SameContent(df[k], messages[i])

\* C18: after parse_html the URL and attachment counters are the sums and
\* counts over the records returned.
C18_StatsMatchRecords ==
    Parsed =>
        /\ stats.urls_extracted =
              SumOver([k \in 1..Len(messages) |-> messages[k].url_count],
                      1..Len(messages))
        /\ stats.messages_with_urls =
              Cardinality({k \in 1..Len(messages) : messages[k].has_urls})
        /\ stats.attachments_found =
              SumOver([k \in 1..Len(messages) |-> messages[k].attachment_count],
                      1..Len(messages))
        /\ stats.messages_with_attachments =
              Cardinality({k \in 1..Len(messages) : messages[k].has_attachments})

\* C19: never more than one thread runs run_conversion, a thread runs only
\* while is_converting is set, and while is_converting is set no step starts
\* a thread or changes selected_file.
C19_OneWorkerFixedFile ==
    /\ [](workers <= 1 /\ (workers = 1 => is_converting))
    /\ [][is_converting => (workers' <= workers /\ selected_file' = selected_file)]_vars

\* a thread is in the middle of a conversion
C19_Witness ==
    /\ is_converting
    /\ workers = 1
    /\ pc = "parse"
    /\ idx = 1
    /\ selected_file # None

\* the reset_ui calls that are scheduled, or still to be scheduled by a thread
ResetsOwed ==
    workers + Cardinality({i \in 1..Len(after_queue) : after_queue[i] = "reset_ui"})

\* the window is idle
Idle == ~is_converting /\ convert_button = "normal" /\ browse_button = "normal"

\* C20: while a conversion is under way exactly one reset_ui is scheduled or
\* still to be scheduled by its thread, and none otherwise; every conversion
\* is followed by the idle window (is_converting false, both controls
\* enabled), in which start_conversion passes its test.
C20_BackToIdle ==
    /\ [](ResetsOwed = (IF is_converting THEN 1 ELSE 0))
    /\ [](Idle => CanStart)
    /\ is_converting ~> Idle

\* a second conversion was started after the first one had failed
C20_Witness ==
    /\ runs = 2
    /\ is_converting
    /\ pc = "spawned"
    /\ excel = None

====
